---- MODULE Spec2Model ----
(***************************************************************************)
(* Model of the failure-injecting TaskDAGExecutor (README.md, lines        *)
(* 118-667): six task classes on three dependency levels, run on a         *)
(* unifex::static_thread_pool and joined per level by                      *)
(* unifex::sync_wait(unifex::when_all(...)).                               *)
(*                                                                         *)
(* The library combinators are modelled by what they do at the call sites: *)
(*   - when_all starts its children in argument order, counts completions  *)
(*     and completes only when every child has completed; the first child  *)
(*     error to arrive is kept and requests stop for the siblings;         *)
(*   - a pool operation dequeued after stop was requested completes with   *)
(*     set_done without running the task body;                             *)
(*   - then() turns an exception of the body into set_error;               *)
(*   - sync_wait rethrows the stored exception, returns an empty optional  *)
(*     on set_done and the value otherwise.                                *)
(*                                                                         *)
(* double values are modelled exactly, as integers counting 1/ValueUnit.   *)
(* Probabilities and draws are integers counting 1/ProbScale.              *)
(***************************************************************************)
EXTENDS Integers, Sequences, FiniteSets, TLC

VARIABLES config, phase, tstate, draw, raised, result, gen_pos,
          wa_doneOrError, wa_error, stop_requested, completion_order,
          level1_results_, level2_results_, final_result_, thrown, report,
          gen_stream, first_outcome, exit_status, now, started_at

vars == <<config, phase, tstate, draw, raised, result, gen_pos,
          wa_doneOrError, wa_error, stop_requested, completion_order,
          level1_results_, level2_results_, final_result_, thrown, report,
          gen_stream, first_outcome, exit_status, now, started_at>>

(* ---------------------------- bounds ---------------------------------- *)

\* resolution of failure_probability and of the uniform draw: 1/ProbScale
ProbScale == 2

(* ------------------------ program constants --------------------------- *)

\* one double unit (1.0) in model units: thirds of hundredths
ValueUnit == 3 * 100

PoolSize == 4

Task1Value == 12750   \* 42.5
Task2Value == 21960   \* 73.2
Task3Value == 27540   \* 91.8

Tasks == 1..6

Level(t) == IF t <= 3 THEN 1 ELSE IF t <= 5 THEN 2 ELSE 3

LevelTasks(l) == {t \in Tasks : Level(t) = l}

TaskName(t) ==
    CASE t = 1 -> "Task1" [] t = 2 -> "Task2" [] t = 3 -> "Task3"
      [] t = 4 -> "Task4" [] t = 5 -> "Task5" [] t = 6 -> "Task6"

Probabilities == 0..ProbScale
Draws == 0..(ProbScale - 1)
NoDraw == -1

(* --------------------------- data types ------------------------------- *)

TaskResult(v, desc) == [value |-> v, description |-> desc]

DefaultTaskResult == TaskResult(0, "")

Level1Results(r1, r2, r3) ==
    [task1_result |-> r1, task2_result |-> r2, task3_result |-> r3]

Level2Results(r4, r5) == [task4_result |-> r4, task5_result |-> r5]

NoError == [kind |-> "none", task_name |-> "", reason |-> ""]
NoResult == [value |-> -1, description |-> "<none>"]

TaskExecutionError(task_name, reason) ==
    [kind |-> "Generic", task_name |-> task_name, reason |-> reason]

DataValidationError(task_name, invalid_data) ==
    [TaskExecutionError(task_name, "Invalid data: " \o invalid_data)
        EXCEPT !.kind = "DataValidation"]

ResourceExhaustionError(task_name, resource) ==
    [TaskExecutionError(task_name, "Resource exhausted: " \o resource)
        EXCEPT !.kind = "ResourceExhaustion"]

RuntimeError(msg) ==
    [kind |-> "RuntimeError", task_name |-> "", reason |-> msg]

\* std::exception::what() of the error
what(e) ==
    IF e.kind \in {"RuntimeError", "BadVariantAccess"} THEN e.reason
    ELSE "Task " \o e.task_name \o " failed: " \o e.reason

(* ------------------------- failure injection -------------------------- *)

FailureConfigs ==
    [fail : [Tasks -> BOOLEAN],
     enable_random_failures : BOOLEAN,
     failure_probability : Probabilities]

\* mutation: failure_probability is taken as the probability of success
check_failure_Complement(should_fail, cfg, d) ==
    should_fail \/ (cfg.enable_random_failures /\ d >= cfg.failure_probability)

\* mutation: the comparison with failure_probability is not strict
check_failure_LessEqual(should_fail, cfg, d) ==
    should_fail \/ (cfg.enable_random_failures /\ d <= cfg.failure_probability)

\* the condition of ITask::check_failure; d is the value of dis(gen), which
\* is only evaluated when the left operands do not decide (short circuit)
check_failure(should_fail, cfg, d) ==
    should_fail \/ (cfg.enable_random_failures /\ d < cfg.failure_probability)

\* mutation: no task overrides the error type, all throw the base class
throw_specific_error_Base(t) ==
    TaskExecutionError(TaskName(t), "Task failed")

throw_specific_error(t) ==
    CASE t = 1 -> DataValidationError(TaskName(t),
                      "DataSourceA contains corrupted records")
      [] t = 2 -> ResourceExhaustionError(TaskName(t),
                      "Database connection pool exhausted")
      [] t = 3 -> TaskExecutionError(TaskName(t),
                      "Network timeout while fetching external API data")
      [] t = 4 -> DataValidationError(TaskName(t),
                      "Result validation failed - combined value out of expected range")
      [] t = 5 -> ResourceExhaustionError(TaskName(t),
                      "Insufficient memory for aggregation operation")
      [] t = 6 -> TaskExecutionError(TaskName(t),
                      "Final validation failed - output format incompatible")

(* --------------------------- task bodies ------------------------------ *)

\* mutation: Task4 adds up all three Level 1 values
Task4Compute_AllInputs(l1) ==
    l1.task1_result.value + l1.task2_result.value + l1.task3_result.value

\* mutation: Task4 combines Task1 with Task3 instead of Task2
Task4Compute_WrongInput(l1) == l1.task1_result.value + l1.task3_result.value

Task4Compute(l1) == l1.task1_result.value + l1.task2_result.value

Task5Compute(l1) ==
    (l1.task1_result.value + l1.task2_result.value + l1.task3_result.value)
        \div 3

\* mutation: the weights of Task4 and Task5 are exchanged
Task6Compute_SwappedWeights(l2) ==
    (l2.task4_result.value * 4 + l2.task5_result.value * 6) \div 10

Task6Compute(l2) ==
    (l2.task4_result.value * 6 + l2.task5_result.value * 4) \div 10

\* the TaskResult returned by execute() of task t when check_failure passes
execute_result(t) ==
    CASE t = 1 -> TaskResult(Task1Value, "DataSourceA")
      [] t = 2 -> TaskResult(Task2Value, "DataSourceB")
      [] t = 3 -> TaskResult(Task3Value, "DataSourceC")
      [] t = 4 -> TaskResult(Task4Compute(level1_results_), "CombinedAB")
      [] t = 5 -> TaskResult(Task5Compute(level1_results_), "AggregatedABC")
      [] t = 6 -> TaskResult(Task6Compute(level2_results_), "FinalScore")

(* ------------------------------ Init ---------------------------------- *)

\* no earlier run of the program has been recorded
NoOutcome == [phase |-> "none"]

\* main has not returned
NoExit == -1

Init ==
    /\ config \in FailureConfigs
    /\ phase = "Idle"
    /\ tstate = [t \in Tasks |-> "none"]
    /\ draw = [t \in Tasks |-> NoDraw]
    /\ raised = [t \in Tasks |-> NoError]
    /\ result = [t \in Tasks |-> NoResult]
    /\ gen_pos = 0
    /\ wa_doneOrError = FALSE
    /\ wa_error = NoError
    /\ stop_requested = FALSE
    /\ completion_order = <<>>
    /\ level1_results_ = Level1Results(DefaultTaskResult, DefaultTaskResult,
                                       DefaultTaskResult)
    /\ level2_results_ = Level2Results(DefaultTaskResult, DefaultTaskResult)
    /\ final_result_ = DefaultTaskResult
    /\ thrown = NoError
    /\ report = <<>>
    /\ gen_stream = <<>>
    /\ first_outcome = NoOutcome
    /\ exit_status = NoExit
    /\ now = 0
    /\ started_at = [t \in Tasks |-> 0]

(* ------------------- when_all / sync_wait operation ------------------- *)

Terminal == {"value", "error", "done"}

CurrentLevel ==
    CASE phase = "RunningLevel1" -> 1
      [] phase = "RunningLevel2" -> 2
      [] phase = "RunningLevel3" -> 3
      [] OTHER -> 0

RunningPhase(l) ==
    CASE l = 1 -> "RunningLevel1"
      [] l = 2 -> "RunningLevel2"
      [] l = 3 -> "RunningLevel3"

\* mutation: every failing child overwrites the stored error (last one wins)
element_set_error_LastWins(doneOrError, error, e) == e

\* mutation: the join stores a generic error built from the message
element_set_error_Wrapped(doneOrError, error, e) ==
    IF ~doneOrError THEN RuntimeError(what(e)) ELSE error

\* the error slot of the join after a child reported e: only the first
\* child to set doneOrError_ stores its error
element_set_error(doneOrError, error, e) ==
    IF ~doneOrError THEN e ELSE error

\* mutation: the join completes as soon as one child has completed
JoinReady_FirstChild(l) == \E t \in LevelTasks(l) : tstate[t] \in Terminal

\* mutation: the join completes as soon as an error is stored (fail fast)
JoinReady_FailFast(l) ==
    \/ \A t \in LevelTasks(l) : tstate[t] \in Terminal
    \/ wa_error # NoError

\* the completion count of the join has reached zero
JoinReady(l) == \A t \in LevelTasks(l) : tstate[t] \in Terminal

\* mutation: the join forwards the values whatever its children reported
deliver_result_IgnoreError(doneOrError, error) == "value"

\* mutation: a join without error counts as a join with values
deliver_result_DoneAsValue(doneOrError, error) ==
    IF doneOrError /\ error # NoError THEN "error" ELSE "value"

\* which completion signal the join forwards to sync_wait
deliver_result(doneOrError, error) ==
    IF doneOrError
      THEN IF error # NoError THEN "error" ELSE "done"
      ELSE "value"

\* mutation: the tuple is unpacked from its last element to its first
unwrap_when_all_Reversed(l) ==
    [i \in 1..Cardinality(LevelTasks(l)) |->
        result[CHOOSE t \in LevelTasks(l) :
                 Cardinality({u \in LevelTasks(l) : u > t}) = i - 1]]

\* mutation: the tuple holds the values in the order of completion
unwrap_when_all_ByCompletion(l) ==
    [i \in 1..Cardinality(LevelTasks(l)) |->
        result[SelectSeq(completion_order,
                         LAMBDA t : t \in LevelTasks(l))[i]]]

\* unwrap_when_all: the i-th element of the tuple is the i-th sender's value
unwrap_when_all(l) ==
    [i \in 1..Cardinality(LevelTasks(l)) |->
        result[CHOOSE t \in LevelTasks(l) :
                 Cardinality({u \in LevelTasks(l) : u < t}) = i - 1]]

BusyWorkers == {t \in Tasks : tstate[t] \in {"running", "drawing"}}

\* the tasks other than t that are inside dis(gen)
OtherDrawers(t) == {u \in Tasks \ {t} : tstate[u] = "drawing"}

SetValue(t, r) ==
    /\ tstate' = [tstate EXCEPT ![t] = "value"]
    /\ result' = [result EXCEPT ![t] = r]
    /\ completion_order' = Append(completion_order, t)
    /\ UNCHANGED <<raised, wa_doneOrError, wa_error, stop_requested>>

SetError(t, e) ==
    /\ tstate' = [tstate EXCEPT ![t] = "error"]
    /\ raised' = [raised EXCEPT ![t] = e]
    /\ wa_error' = element_set_error(wa_doneOrError, wa_error, e)
    /\ wa_doneOrError' = TRUE
    /\ stop_requested' = (stop_requested \/ Level(t) < 3)
    /\ completion_order' = Append(completion_order, t)
    /\ UNCHANGED result

(* ------------------------------ reports ------------------------------- *)

\* mutation: the handler of the base class comes first and takes every
\* task error
catch_label_BaseFirst(e) ==
    CASE e.kind \in {"DataValidation", "ResourceExhaustion", "Generic"} ->
             "TASK EXECUTION"
      [] OTHER -> "UNKNOWN ERROR"

catch_label(e) ==
    CASE e.kind = "DataValidation" -> "DATA VALIDATION"
      [] e.kind = "ResourceExhaustion" -> "RESOURCE MANAGEMENT"
      [] e.kind = "Generic" -> "TASK EXECUTION"
      [] OTHER -> "UNKNOWN ERROR"

catch_task_name(e) ==
    IF e.kind \in {"DataValidation", "ResourceExhaustion", "Generic"}
      THEN e.task_name ELSE "Unknown"

print_error_summary(level, task_name, e) ==
    [type |-> "error_summary", level |-> level, task_name |-> task_name,
     details |-> what(e), values |-> <<>>]

\* mutation: the completion record is printed without the task values
print_level_completed_NoValues(l, rs) ==
    [type |-> "level_completed", level |-> RunningPhase(l), task_name |-> "",
     details |-> "", values |-> <<>>]

print_level_completed(l, rs) ==
    [type |-> "level_completed", level |-> RunningPhase(l), task_name |-> "",
     details |-> "", values |-> rs]

print_success_summary(r) ==
    [type |-> "success_summary", level |-> "", task_name |-> "",
     details |-> "", values |-> <<r>>]

(* ------------------------------ actions ------------------------------- *)

\* execute_pipeline entry and the prologue of execute_level1: the three
\* Level 1 task objects are created
ExecutePipeline ==
    /\ UNCHANGED <<gen_stream, first_outcome, exit_status, now, started_at>>
    /\ phase = "Idle"
    /\ phase' = "RunningLevel1"
    /\ tstate' = [t \in Tasks |->
                    IF t \in LevelTasks(1) THEN "constructed" ELSE tstate[t]]
    /\ UNCHANGED <<config, draw, raised, result, gen_pos, wa_doneOrError,
                   wa_error, stop_requested, completion_order,
                   level1_results_, level2_results_, final_result_, thrown,
                   report>>

\* mutation: a child is started only after the children before it completed
StartChild_Sequential(t) ==
    /\ UNCHANGED <<gen_stream, first_outcome, exit_status, now, started_at>>
    /\ CurrentLevel = Level(t)
    /\ tstate[t] = "constructed"
    /\ \A u \in LevelTasks(Level(t)) : u < t => tstate[u] \in Terminal
    /\ tstate' = [tstate EXCEPT ![t] = "queued"]
    /\ UNCHANGED <<config, phase, draw, raised, result, gen_pos,
                   wa_doneOrError, wa_error, stop_requested, completion_order,
                   level1_results_, level2_results_, final_result_, thrown,
                   report>>

\* when_all::start: the children are started in argument order; starting a
\* pool operation enqueues it
StartChild(t) ==
    /\ UNCHANGED <<gen_stream, first_outcome, exit_status, now, started_at>>
    /\ CurrentLevel = Level(t)
    /\ tstate[t] = "constructed"
    /\ \A u \in LevelTasks(Level(t)) : u < t => tstate[u] # "constructed"
    /\ tstate' = [tstate EXCEPT ![t] = "queued"]
    /\ UNCHANGED <<config, phase, draw, raised, result, gen_pos,
                   wa_doneOrError, wa_error, stop_requested, completion_order,
                   level1_results_, level2_results_, final_result_, thrown,
                   report>>

\* mutation: one worker thread serves the whole queue
WorkerDequeue_SingleWorker(t) ==
    /\ UNCHANGED <<gen_stream, first_outcome, exit_status, now>>
    /\ started_at' = [started_at EXCEPT ![t] = now]
    /\ tstate[t] = "queued"
    /\ BusyWorkers = {}
    /\ IF stop_requested
         THEN /\ tstate' = [tstate EXCEPT ![t] = "done"]
              /\ completion_order' = Append(completion_order, t)
              /\ wa_doneOrError' = TRUE
         ELSE /\ tstate' = [tstate EXCEPT ![t] = "running"]
              /\ UNCHANGED <<completion_order, wa_doneOrError>>
    /\ UNCHANGED <<config, phase, draw, raised, result, gen_pos, wa_error,
                   stop_requested, level1_results_, level2_results_,
                   final_result_, thrown, report>>

\* mutation: an operation found after stop was requested is dropped
\* without completing its receiver
WorkerDequeue_DropOnStop(t) ==
    /\ UNCHANGED <<gen_stream, first_outcome, exit_status, now>>
    /\ started_at' = [started_at EXCEPT ![t] = now]
    /\ tstate[t] = "queued"
    /\ Cardinality(BusyWorkers) < PoolSize
    /\ ~stop_requested
    /\ tstate' = [tstate EXCEPT ![t] = "running"]
    /\ UNCHANGED <<completion_order, wa_doneOrError>>
    /\ UNCHANGED <<config, phase, draw, raised, result, gen_pos, wa_error,
                   stop_requested, level1_results_, level2_results_,
                   final_result_, thrown, report>>

\* a pool worker takes the operation: it runs the body unless stop has
\* been requested, in which case the child completes with set_done
WorkerDequeue(t) ==
    /\ UNCHANGED <<gen_stream, first_outcome, exit_status, now>>
    /\ started_at' = [started_at EXCEPT ![t] = now]
    /\ tstate[t] = "queued"
    /\ Cardinality(BusyWorkers) < PoolSize
    /\ IF stop_requested
         THEN /\ tstate' = [tstate EXCEPT ![t] = "done"]
              /\ completion_order' = Append(completion_order, t)
              /\ wa_doneOrError' = TRUE
         ELSE /\ tstate' = [tstate EXCEPT ![t] = "running"]
              /\ UNCHANGED <<completion_order, wa_doneOrError>>
    /\ UNCHANGED <<config, phase, draw, raised, result, gen_pos, wa_error,
                   stop_requested, level1_results_, level2_results_,
                   final_result_, thrown, report>>

\* execute(): check_failure with should_fail set throws the task's error
\* without evaluating dis(gen)
TaskThrowForced(t) ==
    /\ UNCHANGED <<gen_stream, first_outcome, exit_status, now, started_at>>
    /\ tstate[t] = "running"
    /\ config.fail[t]
    /\ check_failure(config.fail[t], config, NoDraw)
    /\ SetError(t, throw_specific_error(t))
    /\ UNCHANGED <<config, phase, draw, gen_pos, level1_results_,
                   level2_results_, final_result_, thrown, report>>

\* mutation: a dependent task moves its upstream values out of the
\* aggregate it reads
TaskReturn_ConsumesInput(t) ==
    /\ UNCHANGED <<gen_stream, first_outcome, exit_status, now, started_at>>
    /\ tstate[t] = "running"
    /\ ~config.fail[t]
    /\ ~config.enable_random_failures
    /\ ~check_failure(config.fail[t], config, NoDraw)
    /\ SetValue(t, execute_result(t))
    /\ level1_results_' =
          IF Level(t) = 2
            THEN Level1Results(DefaultTaskResult, DefaultTaskResult,
                               DefaultTaskResult)
            ELSE level1_results_
    /\ level2_results_' =
          IF Level(t) = 3
            THEN Level2Results(DefaultTaskResult, DefaultTaskResult)
            ELSE level2_results_
    /\ UNCHANGED <<config, phase, draw, gen_pos, final_result_, thrown,
                   report>>

\* execute(): check_failure passes without a draw and the result is returned
TaskReturn(t) ==
    /\ UNCHANGED <<gen_stream, first_outcome, exit_status, now, started_at>>
    /\ tstate[t] = "running"
    /\ ~config.fail[t]
    /\ ~config.enable_random_failures
    /\ ~check_failure(config.fail[t], config, NoDraw)
    /\ SetValue(t, execute_result(t))
    /\ UNCHANGED <<config, phase, draw, gen_pos, level1_results_,
                   level2_results_, final_result_, thrown, report>>

\* mutation: dis(gen) is evaluated before the flags are looked at
TaskBeginDraw_Eager(t) ==
    /\ UNCHANGED <<gen_stream, first_outcome, exit_status, now, started_at>>
    /\ tstate[t] = "running"
    /\ tstate' = [tstate EXCEPT ![t] = "drawing"]
    /\ UNCHANGED <<config, phase, draw, raised, result, gen_pos,
                   wa_doneOrError, wa_error, stop_requested, completion_order,
                   level1_results_, level2_results_, final_result_, thrown,
                   report>>

\* execute(): check_failure enters dis(gen) on the shared generator
TaskBeginDraw(t) ==
    /\ UNCHANGED <<gen_stream, first_outcome, exit_status, now, started_at>>
    /\ tstate[t] = "running"
    /\ ~config.fail[t]
    /\ config.enable_random_failures
    /\ tstate' = [tstate EXCEPT ![t] = "drawing"]
    /\ UNCHANGED <<config, phase, draw, raised, result, gen_pos,
                   wa_doneOrError, wa_error, stop_requested, completion_order,
                   level1_results_, level2_results_, final_result_, thrown,
                   report>>

\* the values dis(gen) can return to task t: the generator is a function of
\* its seed, so a position of the stream that was produced before (by an
\* earlier run with the same seed) gives the same value again; a position
\* not produced yet, or a call racing with another one, gives any value
NextDraws(t) ==
    IF gen_pos < Len(gen_stream) /\ OtherDrawers(t) = {}
      THEN {gen_stream[gen_pos + 1]}
      ELSE Draws

\* execute(): dis(gen) returns d and advances the generator; the task
\* throws or returns its result. The generator is not synchronised: when
\* another task is inside dis(gen) the update may be lost.
TaskEndDraw(t) ==
    /\ UNCHANGED <<first_outcome, exit_status, now, started_at>>
    /\ tstate[t] = "drawing"
    /\ \E d \in NextDraws(t) :
         /\ draw' = [draw EXCEPT ![t] = d]
         /\ IF check_failure(config.fail[t], config, d)
              THEN SetError(t, throw_specific_error(t))
              ELSE SetValue(t, execute_result(t))
         /\ gen_pos' \in (IF OtherDrawers(t) # {} THEN {gen_pos, gen_pos + 1}
                                                 ELSE {gen_pos + 1})
         /\ gen_stream' = IF gen_pos' > Len(gen_stream)
                            THEN Append(gen_stream, d) ELSE gen_stream
    /\ UNCHANGED <<config, phase, level1_results_, level2_results_,
                   final_result_, thrown, report>>

\* the message of the runtime_error thrown on an empty optional
done_message(l) ==
    CASE l = 1 -> "Level 1 tasks were cancelled or completed with done signal"
      [] l = 2 -> "Level 2 tasks were cancelled or completed with done signal"
      [] l = 3 -> "Level 3 task was cancelled or completed with done signal"

\* mutation: on a failure the results of the tasks that succeeded are kept
ExecuteLevelFail_StorePartial ==
    /\ UNCHANGED <<gen_stream, first_outcome, exit_status, now, started_at>>
    /\ CurrentLevel # 0
    /\ JoinReady(CurrentLevel)
    /\ deliver_result(wa_doneOrError, wa_error) # "value"
    /\ LET e == IF deliver_result(wa_doneOrError, wa_error) = "error"
                  THEN wa_error
                  ELSE RuntimeError(done_message(CurrentLevel))
           kept(t) == IF tstate[t] = "value" THEN result[t]
                                             ELSE DefaultTaskResult
       IN /\ thrown' = e
          /\ report' = Append(report,
                 print_error_summary(catch_label(e), catch_task_name(e), e))
          /\ level1_results_' =
                IF CurrentLevel = 1
                  THEN Level1Results(kept(1), kept(2), kept(3))
                  ELSE level1_results_
          /\ level2_results_' =
                IF CurrentLevel = 2 THEN Level2Results(kept(4), kept(5))
                                    ELSE level2_results_
    /\ phase' = "Failed"
    /\ UNCHANGED <<config, tstate, draw, raised, result, gen_pos,
                   wa_doneOrError, wa_error, stop_requested, completion_order,
                   final_result_>>

\* mutation: a failed level is run again with fresh task instances
ExecuteLevelFail_Retry ==
    /\ UNCHANGED <<gen_stream, first_outcome, exit_status, now, started_at>>
    /\ CurrentLevel # 0
    /\ JoinReady(CurrentLevel)
    /\ deliver_result(wa_doneOrError, wa_error) # "value"
    /\ report' = Append(report,
           print_error_summary(catch_label(wa_error),
                               catch_task_name(wa_error), wa_error))
    /\ tstate' = [t \in Tasks |->
                    IF Level(t) = CurrentLevel THEN "constructed"
                    ELSE tstate[t]]
    /\ wa_doneOrError' = FALSE
    /\ wa_error' = NoError
    /\ stop_requested' = FALSE
    /\ UNCHANGED <<config, phase, draw, raised, result, gen_pos,
                   completion_order, level1_results_, level2_results_,
                   final_result_, thrown>>

\* mutation: the level function swallows the error and the pipeline goes on
ExecuteLevelFail_Continue ==
    /\ UNCHANGED <<gen_stream, first_outcome, exit_status, now, started_at>>
    /\ CurrentLevel # 0
    /\ JoinReady(CurrentLevel)
    /\ deliver_result(wa_doneOrError, wa_error) # "value"
    /\ report' = Append(report,
           print_error_summary(catch_label(wa_error),
                               catch_task_name(wa_error), wa_error))
    /\ phase' = IF CurrentLevel = 3 THEN "Failed"
                ELSE RunningPhase(CurrentLevel + 1)
    /\ tstate' = [t \in Tasks |->
                    IF Level(t) = CurrentLevel + 1 THEN "constructed"
                    ELSE tstate[t]]
    /\ wa_doneOrError' = FALSE
    /\ wa_error' = NoError
    /\ stop_requested' = FALSE
    /\ UNCHANGED <<config, draw, raised, result, gen_pos, completion_order,
                   level1_results_, level2_results_, final_result_, thrown>>

\* sync_wait throws (stored error) or returns an empty optional (done):
\* the level function throws, execute_pipeline's catch clause prints the
\* error summary and rethrows
ExecuteLevelFail ==
    /\ UNCHANGED <<gen_stream, first_outcome, exit_status, now, started_at>>
    /\ CurrentLevel # 0
    /\ JoinReady(CurrentLevel)
    /\ deliver_result(wa_doneOrError, wa_error) # "value"
    /\ LET e == IF deliver_result(wa_doneOrError, wa_error) = "error"
                  THEN wa_error
                  ELSE RuntimeError(done_message(CurrentLevel))
       IN /\ thrown' = e
          /\ report' = Append(report,
                 print_error_summary(catch_label(e), catch_task_name(e), e))
    /\ phase' = "Failed"
    /\ UNCHANGED <<config, tstate, draw, raised, result, gen_pos,
                   wa_doneOrError, wa_error, stop_requested, completion_order,
                   level1_results_, level2_results_, final_result_>>

\* mutation: after Level 1 the pipeline goes on with Level 3
ExecuteLevelComplete_SkipLevel2 ==
    /\ UNCHANGED <<gen_stream, first_outcome, exit_status, now, started_at>>
    /\ CurrentLevel # 0
    /\ JoinReady(CurrentLevel)
    /\ deliver_result(wa_doneOrError, wa_error) = "value"
    /\ LET l == CurrentLevel
           rs == unwrap_when_all(l)
       IN /\ level1_results_' =
                IF l = 1 THEN Level1Results(rs[1], rs[2], rs[3])
                         ELSE level1_results_
          /\ level2_results_' =
                IF l = 2 THEN Level2Results(rs[1], rs[2]) ELSE level2_results_
          /\ final_result_' = IF l = 3 THEN rs[1] ELSE final_result_
          /\ report' =
                IF l = 3
                  THEN report \o <<print_level_completed(l, rs),
                                   print_success_summary(rs[1])>>
                  ELSE Append(report, print_level_completed(l, rs))
          /\ phase' = IF l = 3 THEN "Succeeded" ELSE RunningPhase(3)
          /\ tstate' = [t \in Tasks |->
                          IF l < 3 /\ Level(t) = 3 THEN "constructed"
                          ELSE tstate[t]]
    /\ wa_doneOrError' = FALSE
    /\ wa_error' = NoError
    /\ stop_requested' = FALSE
    /\ UNCHANGED <<config, draw, raised, result, gen_pos, completion_order,
                   thrown>>

\* sync_wait returns the values: the level's aggregate is assigned, the
\* completion record is printed and the next level's tasks are created
\* (after Level 3: the success summary is printed)
ExecuteLevelComplete ==
    /\ UNCHANGED <<gen_stream, first_outcome, exit_status, now, started_at>>
    /\ CurrentLevel # 0
    /\ JoinReady(CurrentLevel)
    /\ deliver_result(wa_doneOrError, wa_error) = "value"
    /\ LET l == CurrentLevel
           rs == unwrap_when_all(l)
       IN /\ level1_results_' =
                IF l = 1 THEN Level1Results(rs[1], rs[2], rs[3])
                         ELSE level1_results_
          /\ level2_results_' =
                IF l = 2 THEN Level2Results(rs[1], rs[2]) ELSE level2_results_
          /\ final_result_' = IF l = 3 THEN rs[1] ELSE final_result_
          /\ report' =
                IF l = 3
                  THEN report \o <<print_level_completed(l, rs),
                                   print_success_summary(rs[1])>>
                  ELSE Append(report, print_level_completed(l, rs))
          /\ phase' = IF l = 3 THEN "Succeeded" ELSE RunningPhase(l + 1)
          /\ tstate' = [t \in Tasks |->
                          IF Level(t) = l + 1 THEN "constructed" ELSE tstate[t]]
    /\ wa_doneOrError' = FALSE
    /\ wa_error' = NoError
    /\ stop_requested' = FALSE
    /\ UNCHANGED <<config, draw, raised, result, gen_pos, completion_order,
                   thrown>>

Next ==
    \/ ExecutePipeline
    \/ \E t \in Tasks : StartChild(t)
    \/ \E t \in Tasks : WorkerDequeue(t)
    \/ \E t \in Tasks : TaskThrowForced(t)
    \/ \E t \in Tasks : TaskReturn(t)
    \/ \E t \in Tasks : TaskBeginDraw(t)
    \/ \E t \in Tasks : TaskEndDraw(t)
    \/ ExecuteLevelFail
    \/ ExecuteLevelComplete

Spec == Init /\ [][Next]_vars

(* ------------------------------ claims -------------------------------- *)

Active == {"constructed", "queued", "running", "drawing"}

Returned == phase \in {"Succeeded", "Failed"}

\* the levels whose join has returned to the executor
JoinReturned(l) ==
    \/ phase = "Succeeded"
    \/ CurrentLevel > l
    \/ phase = "Failed" /\ \E u \in LevelTasks(l) : tstate[u] # "none"

\* C1: once a task of level N has failed, no task of a later level is ever
\* constructed or submitted, for every FailureConfig and every interleaving.
C1_NoLaterLevelAfterFailure ==
    \A t, u \in Tasks :
        (tstate[t] = "error" /\ Level(u) > Level(t)) => tstate[u] = "none"

C1_Witness ==
    /\ phase = "Failed"
    /\ tstate[2] = "error"
    /\ tstate[1] = "value" /\ tstate[3] = "value"
    /\ \A u \in 4..6 : tstate[u] = "none"

\* C2: no Level 2 task exists before all three Level 1 tasks have completed
\* and the Level 1 join has returned; Task6 does not exist before Task4 and
\* Task5 have completed and the Level 2 join has returned.
C2_LevelsStrictlySequential ==
    \A t \in Tasks :
        tstate[t] # "none" =>
            \A l \in 1..(Level(t) - 1) :
                /\ JoinReturned(l)
                /\ \A u \in LevelTasks(l) : tstate[u] = "value"

C2_Witness ==
    /\ tstate[6] = "running"
    /\ tstate[4] = "value" /\ tstate[5] = "value"
    /\ completion_order = <<2, 1, 3, 5, 4>>

\* C3: a level's join returns only after every task submitted for the level
\* is terminal: no task is active except in the level being run, also when
\* a sibling failed early.
C3_JoinWaitsForAllTasks ==
    \A t \in Tasks :
        /\ tstate[t] \in Active => CurrentLevel = Level(t)
        /\ JoinReturned(Level(t)) => tstate[t] \in Terminal

C3_Witness ==
    /\ phase = "Failed"
    /\ completion_order = <<2, 1, 3>>
    /\ tstate[2] = "error"
    /\ tstate[1] = "value" /\ tstate[3] = "value"

FailedTasks == {t \in Tasks : tstate[t] = "error"}

MinTask(S) == CHOOSE t \in S : \A u \in S : t <= u

\* the failing task whose error reached the join first
FirstFailed ==
    completion_order[CHOOSE i \in 1..Len(completion_order) :
        /\ completion_order[i] \in FailedTasks
        /\ \A j \in 1..(i - 1) : completion_order[j] \notin FailedTasks]

\* C4 (as stated): when several tasks of a level fail, the surfaced error is
\* that of the failing task earliest in submission order.
C4_SubmissionOrderErrorSurfaced ==
    (phase = "Failed" /\ FailedTasks # {}) =>
        thrown = raised[MinTask(FailedTasks)]

\* C4 (amended): when several tasks of a level fail, the surfaced error is
\* that of the failing task whose error reached the join first, whatever
\* its position in submission order.
C4_FirstArrivedErrorSurfaced ==
    (phase = "Failed" /\ FailedTasks # {}) => thrown = raised[FirstFailed]

C4_Witness ==
    /\ phase = "Failed"
    /\ config.fail[1] /\ config.fail[2]
    /\ tstate[1] = "error" /\ tstate[2] = "error"
    /\ completion_order[1] = 2
    /\ thrown.task_name = "Task2"

\* C5: the run ends in success iff all six tasks completed without error;
\* a failed task always makes the run fail with an error in flight, also
\* when its siblings produced valid results.
C5_SuccessIffNoTaskFailed ==
    Returned =>
        /\ phase = "Succeeded" <=> \A t \in Tasks : tstate[t] = "value"
        /\ FailedTasks # {} =>
              /\ phase = "Failed"
              /\ thrown \in {raised[t] : t \in FailedTasks}

C5_Witness ==
    /\ phase = "Failed"
    /\ tstate[3] = "error"
    /\ result[1].value = Task1Value
    /\ result[2].value = Task2Value
    /\ thrown.task_name = "Task3"

C6_ExpectedKind ==
    <<"DataValidation", "ResourceExhaustion", "Generic",
      "DataValidation", "ResourceExhaustion", "Generic">>

C6_ExpectedName ==
    <<"Task1", "Task2", "Task3", "Task4", "Task5", "Task6">>

\* C6: when exactly Task i is forced to fail and random failures are off,
\* the run fails with the error named "Task i" of the task-specific kind.
C6_ForcedFailureNameAndKind ==
    \A i \in 1..6 :
        (/\ Returned
         /\ ~config.enable_random_failures
         /\ \A t \in Tasks : config.fail[t] <=> t = i)
        => /\ phase = "Failed"
           /\ thrown.task_name = C6_ExpectedName[i]
           /\ thrown.kind = C6_ExpectedKind[i]

C6_Witness ==
    /\ Returned
    /\ ~config.enable_random_failures
    /\ \A t \in Tasks : config.fail[t] <=> t = 6
    /\ thrown.task_name = "Task6"
    /\ thrown.kind = "Generic"

C7_Label(kind) ==
    CASE kind = "DataValidation" -> "DATA VALIDATION"
      [] kind = "ResourceExhaustion" -> "RESOURCE MANAGEMENT"
      [] kind = "Generic" -> "TASK EXECUTION"

\* C7: the error leaving execute_pipeline, and the one in the failure
\* record, has the kind, task name and reason of the error created inside
\* the failing task.
C7_ErrorPropagatedUnchanged ==
    phase = "Failed" =>
        \E t \in FailedTasks :
            /\ thrown.kind = raised[t].kind
            /\ thrown.task_name = raised[t].task_name
            /\ thrown.reason = raised[t].reason
            /\ report[Len(report)].type = "error_summary"
            /\ report[Len(report)].task_name = raised[t].task_name
            /\ report[Len(report)].level = C7_Label(raised[t].kind)
            /\ report[Len(report)].details =
                  "Task " \o raised[t].task_name \o " failed: "
                      \o raised[t].reason

C7_Witness ==
    /\ phase = "Failed"
    /\ raised[5].reason =
          "Resource exhausted: Insufficient memory for aggregation operation"
    /\ thrown = raised[5]
    /\ report[Len(report)].task_name = "Task5"

NoInjectedFailure ==
    /\ ~config.enable_random_failures
    /\ \A t \in Tasks : ~config.fail[t]

\* C8: with no forced failure and random failures off the run succeeds and
\* final = 0.6*Task4Value + 0.4*Task5Value, Task4Value = Task1Value +
\* Task2Value, Task5Value = (Task1Value + Task2Value + Task3Value)/3.
C8_FinalValueFormula ==
    (Returned /\ NoInjectedFailure) =>
        /\ phase = "Succeeded"
        /\ level2_results_.task4_result.value = Task1Value + Task2Value
        /\ 3 * level2_results_.task5_result.value =
              Task1Value + Task2Value + Task3Value
        /\ 10 * final_result_.value =
              6 * level2_results_.task4_result.value
                + 4 * level2_results_.task5_result.value

C8_Witness ==
    /\ phase = "Succeeded"
    /\ NoInjectedFailure
    /\ final_result_.description = "FinalScore"
    /\ final_result_.value > 0

\* a value rounded to four decimals, as a count of 1/10000
Round4(v) == (v * 10000 * 2 + ValueUnit) \div (2 * ValueUnit)

\* C9 (as stated): with 42.5, 73.2 and 91.8 the pipeline yields
\* Task4 = 115.7, Task5 = 69.1667 and a final value of 97.6867.
C9_FinalValue976867 ==
    phase = "Succeeded" =>
        /\ Round4(level2_results_.task4_result.value) = 1157000
        /\ Round4(level2_results_.task5_result.value) = 691667
        /\ Round4(final_result_.value) = 976867

\* C9 (amended): with 42.5, 73.2 and 91.8 the pipeline yields
\* Task4 = 115.7, Task5 = 69.1667 and a final value of 97.0867.
C9_FinalValue970867 ==
    phase = "Succeeded" =>
        /\ Round4(level1_results_.task1_result.value) = 425000
        /\ Round4(level1_results_.task2_result.value) = 732000
        /\ Round4(level1_results_.task3_result.value) = 918000
        /\ Round4(level2_results_.task4_result.value) = 1157000
        /\ Round4(level2_results_.task5_result.value) = 691667
        /\ Round4(final_result_.value) = 970867

C9_Witness ==
    /\ phase = "Succeeded"
    /\ Round4(final_result_.value) = 970867
    /\ Round4(level2_results_.task5_result.value) = 691667

\* C10: a task fails by injection exactly when its forced-failure flag is
\* set, or random failures are enabled and its draw from [0,1) is strictly
\* below failure_probability.
C10_CheckFailureDecision ==
    \A t \in Tasks :
        tstate[t] \in {"value", "error"} =>
            /\ (~config.fail[t] /\ config.enable_random_failures)
                  => draw[t] \in Draws
            /\ tstate[t] = "error" <=>
                  \/ config.fail[t]
                  \/ /\ config.enable_random_failures
                     /\ draw[t] \in Draws
                     /\ draw[t] < config.failure_probability

C10_Witness ==
    \E t \in Tasks :
        /\ tstate[t] = "value"
        /\ config.enable_random_failures
        /\ draw[t] = config.failure_probability
        /\ \E u \in Tasks : tstate[u] = "error" /\ draw[u] \in Draws

\* the tasks that are inside dis(gen) on the shared generator
Drawing == {t \in Tasks : tstate[t] = "drawing"}

\* C11: with random failures enabled no two tasks of a level access the
\* shared random generator at the same time.
C11_GeneratorMutualExclusion == Cardinality(Drawing) <= 1

(* ------------------- two runs with the same seed ---------------------- *)

\* what a finished run of the program shows to its caller
Outcome ==
    [phase |-> phase, failed |-> FailedTasks, thrown |-> thrown,
     final |-> final_result_.value]

\* the program is run again with the same FailureConfig and the same seed:
\* everything is constructed anew, the generator restarts its stream
Rerun ==
    /\ Returned
    /\ first_outcome = NoOutcome
    /\ first_outcome' = Outcome
    /\ phase' = "Idle"
    /\ tstate' = [t \in Tasks |-> "none"]
    /\ draw' = [t \in Tasks |-> NoDraw]
    /\ raised' = [t \in Tasks |-> NoError]
    /\ result' = [t \in Tasks |-> NoResult]
    /\ gen_pos' = 0
    /\ wa_doneOrError' = FALSE
    /\ wa_error' = NoError
    /\ stop_requested' = FALSE
    /\ completion_order' = <<>>
    /\ level1_results_' = Level1Results(DefaultTaskResult, DefaultTaskResult,
                                        DefaultTaskResult)
    /\ level2_results_' = Level2Results(DefaultTaskResult, DefaultTaskResult)
    /\ final_result_' = DefaultTaskResult
    /\ thrown' = NoError
    /\ report' = <<>>
    /\ started_at' = [t \in Tasks |-> 0]
    /\ exit_status' = NoExit
    /\ UNCHANGED <<config, gen_stream, now>>

SeededNext ==
    \/ Next
    \/ Rerun

SpecSeeded == Init /\ [][SeededNext]_vars

\* C12: with random failures enabled and a fixed seed, two runs with the
\* same FailureConfig end with the same outcome (failing tasks, surfaced
\* error, final value), whatever the interleaving. Stated for the
\* configurations without forced failure, where only the draws decide.
C12_SeededRunsReproducible ==
    (/\ first_outcome # NoOutcome
     /\ Returned
     /\ config.enable_random_failures
     /\ \A t \in Tasks : ~config.fail[t])
    => Outcome = first_outcome

(***************************************************************************)
(* The typed-result variant (src/src/task_dag_demo.cpp, lines 168-731):    *)
(* the same executor and joins, no failure injection; a result holds a     *)
(* double, a string or an int, and the dependent tasks extract and         *)
(* validate their upstream values. The outputs of the three data sources   *)
(* are the inputs of this specification.                                   *)
(***************************************************************************)

TypedTask1Value == 12750   \* 42.5
TypedTask2Value == "PROCESSED_DATA_B_73.2"
TypedTask3Value == 91
NumericPart == 21960       \* 73.2

\* make_task_result: an AnyTaskResult holding a TaskResult<T>
TypedResult(type, v, desc) ==
    [type |-> type, value |-> v, description |-> desc]

\* what each data source may deliver
TypedSourceValues(t) ==
    CASE t = 1 -> {TypedResult("double", v, "DataSourceA") :
                      v \in {0 - ValueUnit, 0, ValueUnit, TypedTask1Value}}
      [] t = 2 -> {TypedResult("string", v, "DataSourceB") :
                      v \in {"", "PROCESSED_DATA_B_10.0", TypedTask2Value}}
      [] t = 3 -> {TypedResult("int", v, "DataSourceC") :
                      v \in {0 - 1, 0, TypedTask3Value}}

\* mutation: an int result is accepted where a double is asked for
holds_IntAsDouble(type, r) ==
    r.type = type \/ (type = "double" /\ r.type = "int")

\* std::get<std::shared_ptr<TaskResult<T>>> succeeds on r
holds(type, r) == r.type = type

BadVariantAccess ==
    [kind |-> "BadVariantAccess", task_name |-> "",
     reason |-> "bad_variant_access"]

Throws(e) == [ok |-> FALSE, error |-> e, result |-> NoResult]
Returns(r) == [ok |-> TRUE, error |-> NoError, result |-> r]

\* mutation: the lower bound of Task4 excludes only negative values
TypedTask4Execute_ZeroAccepted(l1) ==
    IF ~holds("double", l1.task1_result) \/ ~holds("string", l1.task2_result)
      THEN Throws(BadVariantAccess)
    ELSE IF l1.task1_result.value < 0
      THEN Throws(TaskExecutionError("Task4",
                      "Invalid numeric input from Task1"))
    ELSE IF l1.task2_result.value = ""
      THEN Throws(TaskExecutionError("Task4",
                      "Invalid string input from Task2"))
    ELSE Returns(TypedResult("double",
                     l1.task1_result.value + NumericPart, "CombinedAB"))

\* mutation: the numeric part is read from the text of Task2
TypedTask4Execute_ParsesText(l1) ==
    IF ~holds("double", l1.task1_result) \/ ~holds("string", l1.task2_result)
      THEN Throws(BadVariantAccess)
    ELSE IF l1.task1_result.value <= 0
      THEN Throws(TaskExecutionError("Task4",
                      "Invalid numeric input from Task1"))
    ELSE IF l1.task2_result.value = ""
      THEN Throws(TaskExecutionError("Task4",
                      "Invalid string input from Task2"))
    ELSE Returns(TypedResult("double",
                     l1.task1_result.value
                       + (IF l1.task2_result.value = TypedTask2Value
                            THEN NumericPart ELSE 10 * ValueUnit),
                     "CombinedAB"))

TypedTask4Execute(l1) ==
    IF ~holds("double", l1.task1_result) \/ ~holds("string", l1.task2_result)
      THEN Throws(BadVariantAccess)
    ELSE IF l1.task1_result.value <= 0
      THEN Throws(TaskExecutionError("Task4",
                      "Invalid numeric input from Task1"))
    ELSE IF l1.task2_result.value = ""
      THEN Throws(TaskExecutionError("Task4",
                      "Invalid string input from Task2"))
    ELSE Returns(TypedResult("double",
                     l1.task1_result.value + NumericPart, "CombinedAB"))

TypedTask5Execute(l1) ==
    IF \/ ~holds("double", l1.task1_result)
       \/ ~holds("string", l1.task2_result)
       \/ ~holds("int", l1.task3_result)
      THEN Throws(BadVariantAccess)
    ELSE IF l1.task1_result.value <= 0 \/ l1.task3_result.value <= 0
      THEN Throws(TaskExecutionError("Task5",
                      "Invalid numeric inputs for aggregation"))
    ELSE IF l1.task2_result.value = ""
      THEN Throws(TaskExecutionError("Task5",
                      "Invalid string input for aggregation"))
    ELSE Returns(TypedResult("double",
                     (l1.task1_result.value + NumericPart
                        + l1.task3_result.value * ValueUnit) \div 3,
                     "AggregatedABC"))

TypedTask6Execute(l2) ==
    IF ~holds("double", l2.task4_result) \/ ~holds("double", l2.task5_result)
      THEN Throws(BadVariantAccess)
    ELSE IF l2.task4_result.value <= 0 \/ l2.task5_result.value <= 0
      THEN Throws(TaskExecutionError("Task6",
                      "Invalid input values for final computation"))
    ELSE Returns(TypedResult("double",
                     (l2.task4_result.value * 6 + l2.task5_result.value * 4)
                        \div 10,
                     "FinalScore"))

\* execute() of a dependent task on the executor's aggregates
typed_execute(t) ==
    CASE t = 4 -> TypedTask4Execute(level1_results_)
      [] t = 5 -> TypedTask5Execute(level1_results_)
      [] t = 6 -> TypedTask6Execute(level2_results_)

\* execute() of Task1, Task2, Task3: the data source delivers a result
TypedSourceExecute(t) ==
    /\ t \in LevelTasks(1)
    /\ tstate[t] = "running"
    /\ \E r \in TypedSourceValues(t) : SetValue(t, r)
    /\ UNCHANGED <<config, phase, draw, gen_pos, level1_results_,
                   level2_results_, final_result_, thrown, report,
                   gen_stream, first_outcome, exit_status, now, started_at>>

\* execute() of Task4, Task5, Task6: extract, validate, compute
TypedTaskExecute(t) ==
    /\ t \notin LevelTasks(1)
    /\ tstate[t] = "running"
    /\ IF typed_execute(t).ok
         THEN SetValue(t, typed_execute(t).result)
         ELSE SetError(t, typed_execute(t).error)
    /\ UNCHANGED <<config, phase, draw, gen_pos, level1_results_,
                   level2_results_, final_result_, thrown, report,
                   gen_stream, first_outcome, exit_status, now, started_at>>

\* the catch clauses of the typed execute_pipeline
typed_catch_task_name(e) ==
    IF e.kind = "Generic" THEN e.task_name ELSE "Unknown"

\* sync_wait throws or returns an empty optional: the catch clause prints
\* the error summary and rethrows
TypedExecuteLevelFail ==
    /\ CurrentLevel # 0
    /\ JoinReady(CurrentLevel)
    /\ deliver_result(wa_doneOrError, wa_error) # "value"
    /\ LET e == IF deliver_result(wa_doneOrError, wa_error) = "error"
                  THEN wa_error
                  ELSE RuntimeError(done_message(CurrentLevel))
       IN /\ thrown' = e
          /\ report' = Append(report,
                 print_error_summary("PIPELINE", typed_catch_task_name(e), e))
    /\ phase' = "Failed"
    /\ UNCHANGED <<config, tstate, draw, raised, result, gen_pos,
                   wa_doneOrError, wa_error, stop_requested, completion_order,
                   level1_results_, level2_results_, final_result_,
                   gen_stream, first_outcome, exit_status, now, started_at>>

TypedInit ==
    /\ Init
    /\ ~config.enable_random_failures
    /\ config.failure_probability = 0
    /\ \A t \in Tasks : ~config.fail[t]

TypedNext ==
    \/ ExecutePipeline
    \/ \E t \in Tasks : StartChild(t)
    \/ \E t \in Tasks : WorkerDequeue(t)
    \/ \E t \in Tasks : TypedSourceExecute(t)
    \/ \E t \in Tasks : TypedTaskExecute(t)
    \/ TypedExecuteLevelFail
    \/ ExecuteLevelComplete

SpecTyped == TypedInit /\ [][TypedNext]_vars

\* a dependent task has run to its end
Executed(t) == tstate[t] \in {"value", "error"}

\* the upstream values task t reads hold a numeric value <= 0 or an empty text
InvalidInput(t) ==
    CASE t = 4 -> \/ level1_results_.task1_result.value <= 0
                  \/ level1_results_.task2_result.value = ""
      [] t = 5 -> \/ level1_results_.task1_result.value <= 0
                  \/ level1_results_.task3_result.value <= 0
                  \/ level1_results_.task2_result.value = ""
      [] t = 6 -> \/ level2_results_.task4_result.value <= 0
                  \/ level2_results_.task5_result.value <= 0

\* Level 2 aggregates handed to Task6 directly (in the pipeline Task4 and
\* Task5 only deliver positive values)
TypedLevel2Inputs ==
    [task4_result : {TypedResult("double", v, "CombinedAB") :
                        v \in {0 - ValueUnit, 0, ValueUnit}},
     task5_result : {TypedResult("double", v, "AggregatedABC") :
                        v \in {0 - ValueUnit, 0, ValueUnit}}]

\* C13: in the typed-result variant a dependent task whose numeric upstream
\* value is <= 0 (0 included) or whose text upstream value is empty never
\* returns a result: it raises an error carrying its own task name, and the
\* run fails.
C13_InvalidUpstreamRejected ==
    /\ \A t \in {4, 5, 6} :
         (Executed(t) /\ InvalidInput(t)) =>
            /\ tstate[t] = "error"
            /\ result[t] = NoResult
            /\ raised[t].task_name = TaskName(t)
            /\ Returned => phase = "Failed"
    /\ \A l2 \in TypedLevel2Inputs :
         (l2.task4_result.value <= 0 \/ l2.task5_result.value <= 0) =>
            /\ ~TypedTask6Execute(l2).ok
            /\ TypedTask6Execute(l2).result = NoResult
            /\ TypedTask6Execute(l2).error.task_name = "Task6"

C13_Witness ==
    /\ phase = "Failed"
    /\ tstate[4] = "error"
    /\ level1_results_.task1_result.value = 0
    /\ level1_results_.task2_result.value # ""
    /\ thrown.task_name \in {"Task4", "Task5"}

\* C14: the error a dependent task raises on an invalid upstream input
\* (numeric value <= 0 or empty text) is of kind DataValidation.
C14_InvalidInputIsDataValidation ==
    \A t \in {4, 5, 6} :
       (Executed(t) /\ InvalidInput(t) /\ tstate[t] = "error") =>
          raised[t].kind = "DataValidation"

(***************************************************************************)
(* Progress. Every step of the pipeline is taken by a thread that is       *)
(* running: the calling thread inside execute_pipeline, or a pool worker   *)
(* inside a task. Task bodies sleep for a fixed time and return, and the   *)
(* pool's workers take queued operations as long as there are any, so no   *)
(* enabled step is postponed forever.                                      *)
(***************************************************************************)

SpecFair == Init /\ [][Next]_vars /\ WF_vars(Next)

\* no task of any level is still to be started, queued or running
AllResolved == \A t \in Tasks : tstate[t] \notin Active

\* C15: under fair scheduling every call of execute_pipeline eventually
\* returns; it returns only as success after Task6 completed or as failure
\* with the captured error, and never while a level is still unresolved.
C15_PipelineEventuallyReturns ==
    /\ (phase = "RunningLevel1") ~> Returned
    /\ [](phase = "Succeeded" =>
             /\ tstate[6] = "value"
             /\ final_result_ = result[6]
             /\ thrown = NoError)
    /\ [](phase = "Failed" => thrown # NoError)
    /\ [](Returned => AllResolved)

C15_Witness ==
    /\ phase = "Failed"
    /\ stop_requested
    /\ \E t \in Tasks : tstate[t] = "done"
    /\ \E t \in Tasks : tstate[t] = "value"
    /\ AllResolved

\* the order of the executor's phases and of a task's states
PhaseStep(p, q) ==
    \/ p = "Idle" /\ q = "RunningLevel1"
    \/ p = "RunningLevel1" /\ q = "RunningLevel2"
    \/ p = "RunningLevel2" /\ q = "RunningLevel3"
    \/ p = "RunningLevel3" /\ q = "Succeeded"
    \/ p \in {"RunningLevel1", "RunningLevel2", "RunningLevel3"} /\ q = "Failed"

TaskRank(s) ==
    CASE s = "none" -> 0 [] s = "constructed" -> 1 [] s = "queued" -> 2
      [] s = "running" -> 3 [] s = "drawing" -> 4 [] OTHER -> 5

\* C16: within one run the phase only moves forward through Idle,
\* RunningLevel1, RunningLevel2, RunningLevel3 and Succeeded, or from a
\* running phase to Failed; Succeeded and Failed are never left, no level is
\* run twice and each task is executed at most once.
C16_PhaseForwardNoRetry ==
    [][/\ phase' # phase => PhaseStep(phase, phase')
       /\ \A t \in Tasks :
            /\ TaskRank(tstate'[t]) >= TaskRank(tstate[t])
            /\ tstate[t] \in Terminal => tstate'[t] = tstate[t]
            /\ (tstate[t] # "running" /\ tstate'[t] = "running") =>
                  /\ tstate[t] = "queued"
                  /\ \A i \in 1..Len(completion_order) :
                        completion_order[i] # t]_vars

C16_Witness ==
    /\ phase = "Failed"
    /\ CurrentLevel = 0
    /\ \E t \in LevelTasks(2) : tstate[t] = "error"
    /\ \A t \in LevelTasks(1) : tstate[t] = "value"
    /\ tstate[6] = "none"

\* the join of level l has returned the values of all its tasks
LevelCompleted(l) ==
    /\ \A t \in LevelTasks(l) : tstate[t] = "value"
    /\ phase = "Succeeded" \/ CurrentLevel > l \/ (phase = "Failed" /\ l < 3)

\* C17: level1_results_ is assigned from the run's task results iff Task1,
\* Task2 and Task3 all completed without error, level2_results_ iff Task4
\* and Task5 both did; when a task of the level fails, no result of its
\* siblings is stored in the aggregate.
C17_AggregateIffLevelCompleted ==
    /\ IF LevelCompleted(1)
         THEN level1_results_ = Level1Results(result[1], result[2], result[3])
         ELSE level1_results_ = Level1Results(DefaultTaskResult,
                                    DefaultTaskResult, DefaultTaskResult)
    /\ IF LevelCompleted(2)
         THEN level2_results_ = Level2Results(result[4], result[5])
         ELSE level2_results_ = Level2Results(DefaultTaskResult,
                                    DefaultTaskResult)
    /\ \A t \in Tasks : tstate[t] = "value" => result[t] # DefaultTaskResult

C17_Witness ==
    /\ phase = "Failed"
    /\ tstate[4] = "value"
    /\ tstate[5] = "error"
    /\ result[4] # NoResult
    /\ level2_results_ = Level2Results(DefaultTaskResult, DefaultTaskResult)
    /\ level1_results_ = Level1Results(result[1], result[2], result[3])

\* a task of level l has started and not all tasks of the level have
\* terminated
LevelInProgress(l) ==
    /\ \E t \in LevelTasks(l) : TaskRank(tstate[t]) >= TaskRank("running")
    /\ \E t \in LevelTasks(l) : tstate[t] \notin Terminal

\* C18: from the moment a Level 2 task starts until both Level 2 tasks have
\* terminated, the Level 1 aggregate read by Task4 and Task5 is fully
\* written and not modified; likewise the Level 2 aggregate while Task6 runs.
C18_UpstreamAggregateStable ==
    [][/\ LevelInProgress(2) =>
            /\ level1_results_ =
                  Level1Results(result[1], result[2], result[3])
            /\ \A t \in LevelTasks(1) : result[t] # NoResult
            /\ level1_results_' = level1_results_
       /\ LevelInProgress(3) =>
            /\ level2_results_ = Level2Results(result[4], result[5])
            /\ \A t \in LevelTasks(2) : result[t] # NoResult
            /\ level2_results_' = level2_results_]_vars

C18_Witness ==
    /\ LevelInProgress(2)
    /\ tstate[4] = "value"
    /\ tstate[5] = "running"
    /\ level1_results_ = Level1Results(result[1], result[2], result[3])

\* the tasks of the current level not yet handed to the pool
NotSubmitted ==
    {t \in Tasks : Level(t) = CurrentLevel /\ tstate[t] = "constructed"}

\* the calling thread can take the results of the current level's join
ResultConsumable == CurrentLevel # 0 /\ JoinReady(CurrentLevel)

\* C19: within a level all tasks are handed to the pool before the calling
\* thread consumes any result: handing over the next task never waits for a
\* task of the level to finish, and no result is consumed while a task of
\* the level is not yet handed over.
C19_AllSubmittedBeforeAwait ==
    /\ NotSubmitted # {} => ENABLED (\E t \in NotSubmitted : StartChild(t))
    /\ ResultConsumable => NotSubmitted = {}

C19_Witness ==
    /\ tstate[1] = "running"
    /\ tstate[2] = "queued"
    /\ tstate[3] = "constructed"
    /\ NotSubmitted = {3}

(***************************************************************************)
(* Logical time. simulate_work(duration_ms) is the only step that takes    *)
(* time; now counts time in units of TimeUnit milliseconds and             *)
(* started_at[t] is the time at which a worker took task t. Time advances  *)
(* only when no instantaneous step is possible.                            *)
(***************************************************************************)

TimeUnit == 10

\* the argument of simulate_work in each task's execute()
SleepMs(t) ==
    CASE t = 1 -> 100 [] t = 2 -> 80 [] t = 3 -> 120
      [] t = 4 -> 60 [] t = 5 -> 90 [] t = 6 -> 50

Duration(t) == SleepMs(t) \div TimeUnit

\* simulate_work has returned in task t
SleepOver(t) == now >= started_at[t] + Duration(t)

TimedTaskThrowForced(t) == SleepOver(t) /\ TaskThrowForced(t)

TimedTaskReturn(t) == SleepOver(t) /\ TaskReturn(t)

TimedTaskBeginDraw(t) == SleepOver(t) /\ TaskBeginDraw(t)

TimedInstant ==
    \/ ExecutePipeline
    \/ \E t \in Tasks : StartChild(t)
    \/ \E t \in Tasks : WorkerDequeue(t)
    \/ \E t \in Tasks : TimedTaskThrowForced(t)
    \/ \E t \in Tasks : TimedTaskReturn(t)
    \/ \E t \in Tasks : TimedTaskBeginDraw(t)
    \/ \E t \in Tasks : TaskEndDraw(t)
    \/ ExecuteLevelFail
    \/ ExecuteLevelComplete

\* time passes while every thread that can act is asleep in simulate_work
Tick ==
    /\ \E t \in Tasks : tstate[t] = "running"
    /\ ~ENABLED TimedInstant
    /\ now' = now + 1
    /\ UNCHANGED <<config, phase, tstate, draw, raised, result, gen_pos,
                   wa_doneOrError, wa_error, stop_requested, completion_order,
                   level1_results_, level2_results_, final_result_, thrown,
                   report, gen_stream, first_outcome, exit_status, started_at>>

TimedNext ==
    \/ ExecutePipeline
    \/ \E t \in Tasks : StartChild(t)
    \/ \E t \in Tasks : WorkerDequeue(t)
    \/ \E t \in Tasks : TimedTaskThrowForced(t)
    \/ \E t \in Tasks : TimedTaskReturn(t)
    \/ \E t \in Tasks : TimedTaskBeginDraw(t)
    \/ \E t \in Tasks : TaskEndDraw(t)
    \/ ExecuteLevelFail
    \/ ExecuteLevelComplete
    \/ Tick

SpecTimed == Init /\ [][TimedNext]_vars

RECURSIVE SumDuration(_)
SumDuration(S) ==
    IF S = {} THEN 0
    ELSE LET t == CHOOSE u \in S : TRUE
         IN Duration(t) + SumDuration(S \ {t})

MaxDuration(S) ==
    CHOOSE m \in {Duration(t) : t \in S} : \A t \in S : Duration(t) <= m

\* task t has been taken by a worker
Started(t) == TaskRank(tstate[t]) >= TaskRank("running")

\* C20: with a pool of at least 3 workers and durations 100, 80 and 120 the
\* Level 1 join resolves at a logical time bounded by the maximum of the
\* three durations, not by their sum: the three tasks run overlapped, none
\* waits for another to finish before starting.
C20_Level1JoinBoundedByMax ==
    /\ PoolSize >= 3
    /\ MaxDuration(LevelTasks(1)) < SumDuration(LevelTasks(1))
    /\ phase = "RunningLevel1" => now <= MaxDuration(LevelTasks(1))
    /\ (phase = "RunningLevel1" /\ JoinReady(1)) =>
          now = MaxDuration(LevelTasks(1))
    /\ \A t \in LevelTasks(1) : Started(t) => started_at[t] = 0
    /\ \A t \in LevelTasks(1) :
         (phase = "RunningLevel1" /\ tstate[t] \in Terminal) =>
            \A u \in LevelTasks(1) : Started(u)

C20_Witness ==
    /\ phase = "RunningLevel1"
    /\ JoinReady(1)
    /\ now = MaxDuration(LevelTasks(1))
    /\ \A t \in LevelTasks(1) : tstate[t] = "value" /\ started_at[t] = 0

(***************************************************************************)
(* Two runs of the program with random failures disabled: the tasks never  *)
(* reach dis(gen), so a run only takes the forced-failure and the plain    *)
(* return paths of execute().                                              *)
(***************************************************************************)

RepeatInit ==
    /\ Init
    /\ ~config.enable_random_failures
    /\ config.failure_probability = 0

RepeatNext ==
    \/ ExecutePipeline
    \/ \E t \in Tasks : StartChild(t)
    \/ \E t \in Tasks : WorkerDequeue(t)
    \/ \E t \in Tasks : TaskThrowForced(t)
    \/ \E t \in Tasks : TaskReturn(t)
    \/ ExecuteLevelFail
    \/ ExecuteLevelComplete
    \/ Rerun

SpecRepeat == RepeatInit /\ [][RepeatNext]_vars

\* both runs have returned
BothRunsReturned == first_outcome # NoOutcome /\ Returned

\* the tasks of level l that are forced to fail
ForcedIn(l) == {t \in LevelTasks(l) : config.fail[t]}

\* the first level with a task forced to fail (0: none)
FailingLevel ==
    IF ForcedIn(1) # {} THEN 1
    ELSE IF ForcedIn(2) # {} THEN 2
    ELSE IF ForcedIn(3) # {} THEN 3 ELSE 0

\* C21 (as stated): two runs with the same FailureConfig and random failures
\* disabled end with the same outcome: the same final value on success, the
\* same failing task name and error kind on failure, whatever the
\* interleaving.
C21_SameOutcomeTwice ==
    BothRunsReturned =>
        /\ phase = first_outcome.phase
        /\ final_result_.value = first_outcome.final
        /\ thrown.task_name = first_outcome.thrown.task_name
        /\ thrown.kind = first_outcome.thrown.kind

\* C21 (amended): the two runs agree on success or failure and on the final
\* value; on failure each run surfaces the error of a task of the failing
\* level that is forced to fail, and the two runs surface the same task name
\* and kind when only one task of that level is forced to fail.
C21_SameOutcomeUpToFailureRace ==
    BothRunsReturned =>
        /\ phase = first_outcome.phase
        /\ final_result_.value = first_outcome.final
        /\ (phase = "Succeeded") = (FailingLevel = 0)
        /\ phase = "Failed" =>
             /\ \E t \in ForcedIn(FailingLevel) :
                   thrown = throw_specific_error(t)
             /\ \E t \in ForcedIn(FailingLevel) :
                   first_outcome.thrown = throw_specific_error(t)
             /\ Cardinality(ForcedIn(FailingLevel)) = 1 =>
                   /\ thrown.task_name = first_outcome.thrown.task_name
                   /\ thrown.kind = first_outcome.thrown.kind

C21_Witness ==
    /\ BothRunsReturned
    /\ phase = "Failed"
    /\ Cardinality(ForcedIn(1)) = 2
    /\ thrown.task_name # first_outcome.thrown.task_name

(***************************************************************************)
(* main: the executor runs inside try; the handler for std::exception      *)
(* returns 1, the end of main returns 0. Every error of the pipeline is    *)
(* derived from std::exception.                                            *)
(***************************************************************************)

\* mutation: the handler does not return and main falls through to its end
MainReturn_FallThrough ==
    /\ Returned
    /\ exit_status = NoExit
    /\ exit_status' = 0
    /\ UNCHANGED <<config, phase, tstate, draw, raised, result, gen_pos,
                   wa_doneOrError, wa_error, stop_requested, completion_order,
                   level1_results_, level2_results_, final_result_, thrown,
                   report, gen_stream, first_outcome, now, started_at>>

MainReturn ==
    /\ Returned
    /\ exit_status = NoExit
    /\ exit_status' = IF thrown # NoError THEN 1 ELSE 0
    /\ UNCHANGED <<config, phase, tstate, draw, raised, result, gen_pos,
                   wa_doneOrError, wa_error, stop_requested, completion_order,
                   level1_results_, level2_results_, final_result_, thrown,
                   report, gen_stream, first_outcome, now, started_at>>

MainNext ==
    \/ Next
    \/ MainReturn

SpecMain == Init /\ [][MainNext]_vars

\* C22: the process exit status is 0 exactly when the pipeline run succeeded
\* and 1 exactly when it failed.
C22_ExitStatusMatchesOutcome ==
    exit_status # NoExit =>
        /\ exit_status \in {0, 1}
        /\ (exit_status = 0) = (phase = "Succeeded")
        /\ (exit_status = 1) = (phase = "Failed")

C22_Witness ==
    /\ exit_status = 1
    /\ phase = "Failed"
    /\ thrown.kind = "ResourceExhaustion"
    /\ catch_task_name(thrown) = "Task5"

\* the records of the given type in the output of the run
RecordsOfType(type) == SelectSeq(report, LAMBDA r : r.type = type)

\* C23: when the only failing task is Task5 (forced), all three Level 1
\* tasks complete and the Level 1 completion record with their three values
\* is emitted before the failure record; no Level 2 or Level 3 completion
\* record and no success summary is emitted.
C23_Level1RecordBeforeFailure ==
    (Returned /\ config.fail[5] /\ FailedTasks = {5}) =>
        /\ \A t \in LevelTasks(1) : tstate[t] = "value"
        /\ Len(report) = 2
        /\ report[1].type = "level_completed"
        /\ report[1].level = RunningPhase(1)
        /\ report[1].values = <<result[1], result[2], result[3]>>
        /\ \A t \in LevelTasks(1) : result[t] # NoResult
        /\ report[2].type = "error_summary"
        /\ report[2].task_name = "Task5"
        /\ RecordsOfType("success_summary") = <<>>
        /\ Len(RecordsOfType("level_completed")) = 1
        /\ tstate[6] = "none"

C23_Witness ==
    /\ phase = "Failed"
    /\ config.fail[5]
    /\ FailedTasks = {5}
    /\ tstate[4] = "value"
    /\ Len(report) = 2
    /\ report[1].values = <<result[1], result[2], result[3]>>

\* the label printed for each kind of error
LabelOfKind(kind) ==
    CASE kind = "DataValidation" -> "DATA VALIDATION"
      [] kind = "ResourceExhaustion" -> "RESOURCE MANAGEMENT"
      [] kind = "Generic" -> "TASK EXECUTION"
      [] OTHER -> "UNKNOWN ERROR"

\* C24: every run emits exactly one terminal report, the success summary or
\* one failure record, never both and never more than one failure record
\* even when several tasks of a level failed; the failure record names the
\* task whose error was surfaced and the label of that error's kind.
C24_ExactlyOneTerminalReport ==
    /\ ~Returned =>
          /\ RecordsOfType("success_summary") = <<>>
          /\ RecordsOfType("error_summary") = <<>>
    /\ phase = "Succeeded" =>
          /\ Len(RecordsOfType("success_summary")) = 1
          /\ RecordsOfType("error_summary") = <<>>
          /\ report[Len(report)].type = "success_summary"
    /\ phase = "Failed" =>
          /\ Len(RecordsOfType("error_summary")) = 1
          /\ RecordsOfType("success_summary") = <<>>
          /\ report[Len(report)].type = "error_summary"
          /\ report[Len(report)].level = LabelOfKind(thrown.kind)
          /\ FailedTasks # {} =>
                /\ thrown = raised[FirstFailed]
                /\ report[Len(report)].task_name = TaskName(FirstFailed)
                /\ report[Len(report)].details = what(raised[FirstFailed])

C24_Witness ==
    /\ phase = "Failed"
    /\ Cardinality(FailedTasks) = 2
    /\ Len(RecordsOfType("error_summary")) = 1
    /\ thrown.kind = "ResourceExhaustion"
    /\ report[Len(report)].level = "RESOURCE MANAGEMENT"

(***************************************************************************)
(* The typed-result variant with data sources that may deliver any of the  *)
(* alternatives of AnyTaskResult: ITask::execute is declared to return     *)
(* AnyTaskResult, the consumers decide at run time what they extract.      *)
(***************************************************************************)

ResultTypes == {"double", "string", "int"}

\* get_value_as<T>: the value held, or std::bad_variant_access
get_value_as(type, r) ==
    IF holds(type, r) THEN [ok |-> TRUE, value |-> r.value, error |-> NoError]
    ELSE [ok |-> FALSE, value |-> NoResult.value, error |-> BadVariantAccess]

AnySourceExecute(t) ==
    /\ t \in LevelTasks(1)
    /\ tstate[t] = "running"
    /\ \E u \in LevelTasks(1) : \E r \in TypedSourceValues(u) : SetValue(t, r)
    /\ UNCHANGED <<config, phase, draw, gen_pos, level1_results_,
                   level2_results_, final_result_, thrown, report,
                   gen_stream, first_outcome, exit_status, now, started_at>>

TypedAnyNext ==
    \/ ExecutePipeline
    \/ \E t \in Tasks : StartChild(t)
    \/ \E t \in Tasks : WorkerDequeue(t)
    \/ \E t \in Tasks : AnySourceExecute(t)
    \/ \E t \in Tasks : TypedTaskExecute(t)
    \/ TypedExecuteLevelFail
    \/ ExecuteLevelComplete

SpecTypedAny == TypedInit /\ [][TypedAnyNext]_vars

\* an upstream result task t extracts holds another type than the one asked
TypeMismatch(t) ==
    CASE t = 4 -> \/ level1_results_.task1_result.type # "double"
                  \/ level1_results_.task2_result.type # "string"
      [] t = 5 -> \/ level1_results_.task1_result.type # "double"
                  \/ level1_results_.task2_result.type # "string"
                  \/ level1_results_.task3_result.type # "int"
      [] t = 6 -> \/ level2_results_.task4_result.type # "double"
                  \/ level2_results_.task5_result.type # "double"

\* C25: in the typed-result variant, extracting an upstream result as a type
\* other than the one it holds never yields a value: the extraction raises
\* an error, the consuming task produces no result and the run fails.
C25_WrongTypeExtractionFails ==
    /\ \A u \in LevelTasks(1) : \A r \in TypedSourceValues(u) :
       \A type \in ResultTypes :
         r.type # type =>
            /\ ~get_value_as(type, r).ok
            /\ get_value_as(type, r).error = BadVariantAccess
    /\ \A t \in {4, 5, 6} :
         (Executed(t) /\ TypeMismatch(t)) =>
            /\ tstate[t] = "error"
            /\ result[t] = NoResult
            /\ raised[t] = BadVariantAccess
            /\ Returned =>
                  /\ phase = "Failed"
                  /\ thrown \in {raised[u] : u \in LevelTasks(Level(t))}
                  /\ thrown = BadVariantAccess =>
                        report[Len(report)].task_name = "Unknown"

C25_Witness ==
    /\ phase = "Failed"
    /\ level1_results_.task1_result.type = "double"
    /\ level1_results_.task2_result.type = "double"
    /\ level1_results_.task3_result.type = "int"
    /\ tstate[4] = "error"
    /\ raised[4] = BadVariantAccess
    /\ thrown = BadVariantAccess

\* the order in which the tasks of level l completed
CompletionOrderOf(l) ==
    SelectSeq(completion_order, LAMBDA t : t \in LevelTasks(l))

\* C26: the result stored for each task of a level is that task's result, by
\* submission position and not by completion order: for every interleaving
\* level1_results_.task1_result is Task1's output, task2_result Task2's and
\* task3_result Task3's (likewise for Level 2).
C26_ResultsBySubmissionPosition ==
    /\ LevelCompleted(1) =>
          /\ level1_results_.task1_result = result[1]
          /\ level1_results_.task2_result = result[2]
          /\ level1_results_.task3_result = result[3]
          /\ level1_results_.task1_result.value = Task1Value
          /\ level1_results_.task2_result.value = Task2Value
          /\ level1_results_.task3_result.value = Task3Value
    /\ LevelCompleted(2) =>
          /\ level2_results_.task4_result = result[4]
          /\ level2_results_.task5_result = result[5]
          /\ level2_results_.task4_result.value =
                Task4Compute(level1_results_)
          /\ level2_results_.task5_result.value =
                Task5Compute(level1_results_)

C26_Witness ==
    /\ LevelCompleted(2)
    /\ CompletionOrderOf(1) = <<3, 2, 1>>
    /\ CompletionOrderOf(2) = <<5, 4>>
    /\ level1_results_.task1_result.value = Task1Value
    /\ level1_results_.task3_result.value = Task3Value

\* the tasks handed to the pool in this run
Submitted == {t \in Tasks : tstate[t] \notin {"none", "constructed"}}

\* the join of level l completed with an error or with done
LevelFailed(l) == \E t \in LevelTasks(l) : tstate[t] \in {"error", "done"}

\* C27: in every run the number of tasks submitted to the pool is 3, 5 or 6:
\* 3 exactly when Level 1 failed, 5 exactly when Level 1 succeeded and Level
\* 2 failed, 6 exactly when Levels 1 and 2 succeeded; the tasks of a failed
\* level are all submitted, the siblings of the failing task included.
C27_SubmittedTaskCount ==
    Returned =>
        /\ Cardinality(Submitted) \in {3, 5, 6}
        /\ (Cardinality(Submitted) = 3) = LevelFailed(1)
        /\ (Cardinality(Submitted) = 5) =
              (LevelCompleted(1) /\ LevelFailed(2))
        /\ (Cardinality(Submitted) = 6) =
              (LevelCompleted(1) /\ LevelCompleted(2))
        /\ \A l \in 1..3 : LevelFailed(l) => LevelTasks(l) \subseteq Submitted

C27_Witness ==
    /\ Returned
    /\ Cardinality(Submitted) = 5
    /\ tstate[5] = "error"
    /\ tstate[4] = "done"
    /\ LevelCompleted(1)

(***************************************************************************)
(* Data flow. Two runs without failures in which each Level 1 task may     *)
(* return any of the three source values; the dependent tasks compute from *)
(* the aggregates as in the code. The first run's aggregates are kept for  *)
(* comparison with the second run's.                                       *)
(***************************************************************************)

InputValues == {Task1Value, Task2Value, Task3Value}

SourceReturn(t) ==
    /\ t \in LevelTasks(1)
    /\ tstate[t] = "running"
    /\ ~check_failure(config.fail[t], config, NoDraw)
    /\ \E v \in InputValues :
          SetValue(t, TaskResult(v, execute_result(t).description))
    /\ UNCHANGED <<config, phase, draw, gen_pos, level1_results_,
                   level2_results_, final_result_, thrown, report,
                   gen_stream, first_outcome, exit_status, now, started_at>>

DependentReturn(t) ==
    /\ t \notin LevelTasks(1)
    /\ TaskReturn(t)

\* what the executor holds at the end of a run
RunRecord ==
    [phase |-> phase, level1 |-> level1_results_, level2 |-> level2_results_,
     final |-> final_result_]

RerunInputs ==
    /\ Returned
    /\ first_outcome = NoOutcome
    /\ first_outcome' = RunRecord
    /\ phase' = "Idle"
    /\ tstate' = [t \in Tasks |-> "none"]
    /\ draw' = [t \in Tasks |-> NoDraw]
    /\ raised' = [t \in Tasks |-> NoError]
    /\ result' = [t \in Tasks |-> NoResult]
    /\ gen_pos' = 0
    /\ wa_doneOrError' = FALSE
    /\ wa_error' = NoError
    /\ stop_requested' = FALSE
    /\ completion_order' = <<>>
    /\ level1_results_' = Level1Results(DefaultTaskResult, DefaultTaskResult,
                                        DefaultTaskResult)
    /\ level2_results_' = Level2Results(DefaultTaskResult, DefaultTaskResult)
    /\ final_result_' = DefaultTaskResult
    /\ thrown' = NoError
    /\ report' = <<>>
    /\ started_at' = [t \in Tasks |-> 0]
    /\ exit_status' = NoExit
    /\ UNCHANGED <<config, gen_stream, now>>

DataflowInit ==
    /\ RepeatInit
    /\ \A t \in Tasks : ~config.fail[t]

DataflowNext ==
    \/ ExecutePipeline
    \/ \E t \in Tasks : StartChild(t)
    \/ \E t \in Tasks : WorkerDequeue(t)
    \/ \E t \in Tasks : SourceReturn(t)
    \/ \E t \in Tasks : DependentReturn(t)
    \/ ExecuteLevelComplete
    \/ RerunInputs

SpecDataflow == DataflowInit /\ [][DataflowNext]_vars

\* both runs succeeded
BothRunsSucceeded == first_outcome # NoOutcome /\ phase = "Succeeded"

\* C28: Task4's output depends only on the results of Task1 and Task2: two
\* runs that differ only in Task3's value give the same Task4 value, while
\* Task5's output depends on all three Level 1 results and Task6's only on
\* Task4's and Task5's.
C28_TaskInputDependencies ==
    BothRunsSucceeded =>
        LET a == first_outcome.level1
            b == level1_results_
            same1 == a.task1_result = b.task1_result
            same2 == a.task2_result = b.task2_result
            same3 == a.task3_result = b.task3_result
            same4 == first_outcome.level2.task4_result
                        = level2_results_.task4_result
            same5 == first_outcome.level2.task5_result
                        = level2_results_.task5_result
        IN /\ (same1 /\ same2) => same4
           /\ (same1 /\ ~same2) => ~same4
           /\ (~same1 /\ same2) => ~same4
           /\ (same1 /\ same2 /\ same3) => same5
           /\ (same1 /\ same2 /\ ~same3) => ~same5
           /\ (same1 /\ ~same2 /\ same3) => ~same5
           /\ (~same1 /\ same2 /\ same3) => ~same5
           /\ (same4 /\ same5) => first_outcome.final = final_result_
           /\ (same4 /\ ~same5) => first_outcome.final # final_result_
           /\ (~same4 /\ same5) => first_outcome.final # final_result_

C28_Witness ==
    /\ BothRunsSucceeded
    /\ first_outcome.level1.task1_result = level1_results_.task1_result
    /\ first_outcome.level1.task2_result = level1_results_.task2_result
    /\ first_outcome.level1.task3_result # level1_results_.task3_result
    /\ first_outcome.level2.task4_result = level2_results_.task4_result
    /\ first_outcome.level2.task5_result # level2_results_.task5_result

\* C29: the shared generator is advanced only by a task whose forced-failure
\* flag is clear while random failures are enabled: with random failures
\* disabled, or for a task forced to fail, check_failure leaves the
\* generator unchanged, so a run with random failures disabled never
\* touches it.
C29_GeneratorAdvancedOnlyByRandomCheck ==
    /\ [][gen_pos' # gen_pos =>
             /\ config.enable_random_failures
             /\ gen_pos' = gen_pos + 1
             /\ \E t \in Tasks :
                   /\ ~config.fail[t]
                   /\ tstate[t] = "drawing"
                   /\ tstate'[t] # "drawing"
                   /\ draw'[t] # NoDraw]_vars
    /\ [](~config.enable_random_failures =>
             /\ gen_pos = 0
             /\ gen_stream = <<>>)
    /\ [](\A t \in Tasks :
             (config.fail[t] \/ ~config.enable_random_failures) =>
                /\ tstate[t] # "drawing"
                /\ draw[t] = NoDraw)

C29_Witness ==
    /\ config.enable_random_failures
    /\ config.fail[3]
    /\ tstate[3] = "error"
    /\ draw[3] = NoDraw
    /\ draw[1] # NoDraw
    /\ draw[2] # NoDraw
    /\ gen_pos = 2

(***************************************************************************)
(* Cancellation. No task of the program requests stop by itself; the done  *)
(* signal reaches a join only when stop is requested on it while none of   *)
(* its children has failed. RequestStop is that request, coming from       *)
(* outside the tasks while a level is running.                             *)
(***************************************************************************)

RequestStop ==
    /\ CurrentLevel # 0
    /\ ~stop_requested
    /\ stop_requested' = TRUE
    /\ UNCHANGED <<config, phase, tstate, draw, raised, result, gen_pos,
                   wa_doneOrError, wa_error, completion_order,
                   level1_results_, level2_results_, final_result_, thrown,
                   report, gen_stream, first_outcome, exit_status, now,
                   started_at>>

CancelNext ==
    \/ Next
    \/ RequestStop

SpecCancel == Init /\ [][CancelNext]_vars

\* the join of the current level has completed with the done signal
JoinDone ==
    /\ CurrentLevel # 0
    /\ JoinReady(CurrentLevel)
    /\ wa_doneOrError
    /\ wa_error = NoError

\* C30: if a level's join completes with the done (cancelled) signal instead
\* of a value or an error, the executor treats it as a failure: it raises a
\* generic runtime error, reports it with the task name "Unknown" under the
\* unknown-error label, submits no later level and the run ends in failure.
C30_DoneSignalIsFailure ==
    /\ [][(JoinDone /\ phase' # phase) =>
             /\ phase' = "Failed"
             /\ thrown'.kind = "RuntimeError"
             /\ thrown'.reason = done_message(CurrentLevel)
             /\ report' = Append(report, report'[Len(report')])
             /\ report'[Len(report')].type = "error_summary"
             /\ report'[Len(report')].task_name = "Unknown"
             /\ report'[Len(report')].level = "UNKNOWN ERROR"
             /\ tstate' = tstate]_vars
    /\ [](JoinDone => \A t \in Tasks :
                         Level(t) > CurrentLevel => tstate[t] = "none")
    /\ []((phase = "Failed" /\ thrown.kind = "RuntimeError") =>
             /\ \E t \in Tasks : tstate[t] = "done"
             /\ \A t \in Tasks : tstate[t] \notin Active)

C30_Witness ==
    /\ phase = "Failed"
    /\ thrown = RuntimeError(done_message(2))
    /\ tstate[4] = "value"
    /\ tstate[5] = "done"
    /\ tstate[6] = "none"
    /\ report[Len(report)].task_name = "Unknown"

\* 73.2 in units of 1/ValueUnit
FixedConversion == (732 * ValueUnit) \div 10

RandomOnly ==
    /\ config.enable_random_failures
    /\ \A t \in Tasks : ~config.fail[t]

\* C32: with random failures enabled and no forced failure, a
\* failure_probability of 0 makes no task fail (the run succeeds), and a
\* failure_probability of 1 makes every executed task fail, so the run
\* always fails at Level 1 and submits exactly three tasks.
C32_ProbabilityZeroAndOne ==
    /\ (RandomOnly /\ config.failure_probability = 0) =>
          /\ FailedTasks = {}
          /\ \A t \in Tasks : tstate[t] # "done"
          /\ Returned => phase = "Succeeded"
    /\ (RandomOnly /\ config.failure_probability = ProbScale) =>
          /\ \A t \in Tasks : tstate[t] # "value"
          /\ \A t \in Tasks : draw[t] # NoDraw => tstate[t] = "error"
          /\ Returned =>
                /\ phase = "Failed"
                /\ LevelFailed(1)
                /\ FailedTasks # {}
                /\ Submitted = LevelTasks(1)
                /\ Cardinality(Submitted) = 3

C32_Witness ==
    /\ RandomOnly
    /\ config.failure_probability = ProbScale
    /\ Returned
    /\ Cardinality(FailedTasks) = 2
    /\ \E t \in LevelTasks(1) : tstate[t] = "done"
    /\ Cardinality(Submitted) = 3

(* ------------- main application: fork steps and when_all --------------- *)

\* the timed sections of main(): each builds its senders, takes a start time,
\* runs them, and takes an end time
AppSections ==
    {"fork", "sources", "actions", "sequential", "when_all", "simple"}

\* std::chrono::milliseconds arguments are multiples of 5
AppTimeUnit == 5

\* simulate_data_fetch(5): the producer's vector handed to both processors
AppDataSize == 5

\* the senders of a section, in the order they are run
AppSenders(s) == IF s = "fork" THEN 1..2 ELSE 1..3

\* sleep_for in the function of sender i (square_processor sleeps once per
\* element of its input)
AppSleepMs(s, i) ==
    CASE s = "fork" ->
            (CASE i = 1 -> 10 * AppDataSize [] i = 2 -> 30)
      [] s = "sources" ->
            (CASE i = 1 -> 60 [] i = 2 -> 40 [] i = 3 -> 80)
      [] s = "actions" ->
            (CASE i = 1 -> 70 [] i = 2 -> 45 [] i = 3 -> 90)
      [] s \in {"sequential", "when_all"} ->
            (CASE i = 1 -> 100 [] i = 2 -> 80 [] i = 3 -> 60)
      [] s = "simple" ->
            (CASE i = 1 -> 50 [] i = 2 -> 30 [] i = 3 -> 40)

AppDuration(s, i) == AppSleepMs(s, i) \div AppTimeUnit

\* schedule(scheduler) | then(f) runs f on a pool thread;
\* just(x) | then(f) has no scheduler and runs f on the thread that starts it
AppScheduled(s) == s # "simple"

\* how the section runs its senders: one sync_wait per sender, or one
\* sync_wait of a when_all of all of them
AppJoin(s) == IF s \in {"when_all", "simple"} THEN "when_all" ELSE "sync_wait"

\* static_thread_pool pool{n} of the block the section is in
AppPoolSize(s) == IF s \in {"sources", "actions"} THEN 4 ELSE 3

\* what the function of sender i returns (the number of elements for the
\* vectors and texts of the fork steps)
AppValue(s, i) ==
    CASE s = "fork" -> (CASE i = 1 -> AppDataSize [] i = 2 -> 1)
      [] s = "sources" -> (CASE i = 1 -> 5 [] i = 2 -> 3 [] i = 3 -> 2)
      [] s = "actions" -> 1
      [] s \in {"sequential", "when_all"} ->
            (CASE i = 1 -> 42 [] i = 2 -> 99 [] i = 3 -> 77)
      [] s = "simple" ->
            (CASE i = 1 -> 10 * 2 [] i = 2 -> 5 * 3 [] i = 3 -> 7 * 4)

AppTasks == AppSenders(config.section)

\* the senders are built before the start time is taken
AppInit ==
    /\ config \in [section : AppSections]
    /\ phase = "Main"
    /\ tstate = [t \in Tasks |->
                    IF t \in AppSenders(config.section) THEN "constructed"
                    ELSE "none"]
    /\ draw = [t \in Tasks |-> NoDraw]
    /\ raised = [t \in Tasks |-> NoError]
    /\ result = [t \in Tasks |-> -1]
    /\ gen_pos = 0
    /\ wa_doneOrError = FALSE
    /\ wa_error = NoError
    /\ stop_requested = FALSE
    /\ completion_order = <<>>
    /\ level1_results_ = Level1Results(DefaultTaskResult, DefaultTaskResult,
                                       DefaultTaskResult)
    /\ level2_results_ = Level2Results(DefaultTaskResult, DefaultTaskResult)
    /\ final_result_ = DefaultTaskResult
    /\ thrown = NoError
    /\ report = <<>>
    /\ gen_stream = <<>>
    /\ first_outcome = NoOutcome
    /\ exit_status = NoExit
    /\ now = 0
    /\ started_at = [t \in Tasks |-> 0]

AppUnused ==
    UNCHANGED <<config, draw, raised, gen_pos, wa_doneOrError, wa_error,
                stop_requested, level1_results_, level2_results_,
                final_result_, thrown, report, gen_stream, first_outcome,
                exit_status>>

\* auto result_i = unifex::sync_wait(std::move(task_i)): the sender is lazy,
\* it is started here, and the calling thread blocks until it completed
AppSyncWait(i) ==
    /\ AppJoin(config.section) = "sync_wait"
    /\ phase = "Main"
    /\ i \in AppTasks
    /\ tstate[i] = "constructed"
    /\ \A u \in AppTasks : u < i => tstate[u] = "value"
    /\ tstate' = [tstate EXCEPT ![i] = "queued"]
    /\ phase' = "Blocked"
    /\ UNCHANGED <<result, completion_order, now, started_at>>
    /\ AppUnused

\* unifex::sync_wait(unifex::when_all(...)): the calling thread starts the
\* when_all operation
AppWhenAll ==
    /\ AppJoin(config.section) = "when_all"
    /\ phase = "Main"
    /\ phase' = "Starting"
    /\ UNCHANGED <<tstate, result, completion_order, now, started_at>>
    /\ AppUnused

\* when_all's start() starts its children in argument order on the calling
\* thread: a scheduled child is enqueued on the pool and start returns; a
\* just | then child runs its function inside start, which returns only
\* when the function has returned
AppStartChild(i) ==
    /\ phase = "Starting"
    /\ i \in AppTasks
    /\ tstate[i] = "constructed"
    /\ \A u \in AppTasks : u < i =>
          /\ tstate[u] # "constructed"
          /\ ~AppScheduled(config.section) => tstate[u] = "value"
    /\ IF AppScheduled(config.section)
         THEN /\ tstate' = [tstate EXCEPT ![i] = "queued"]
              /\ UNCHANGED started_at
         ELSE /\ tstate' = [tstate EXCEPT ![i] = "running"]
              /\ started_at' = [started_at EXCEPT ![i] = now]
    /\ UNCHANGED <<phase, result, completion_order, now>>
    /\ AppUnused

\* start() of the when_all operation returns and sync_wait waits
AppStartReturn ==
    /\ phase = "Starting"
    /\ \A u \in AppTasks :
          /\ tstate[u] # "constructed"
          /\ ~AppScheduled(config.section) => tstate[u] = "value"
    /\ phase' = "Blocked"
    /\ UNCHANGED <<tstate, result, completion_order, now, started_at>>
    /\ AppUnused

AppBusyWorkers ==
    {u \in AppTasks : AppScheduled(config.section) /\ tstate[u] = "running"}

\* a free pool thread takes the scheduled operation and calls the function
AppWorkerDequeue(i) ==
    /\ i \in AppTasks
    /\ tstate[i] = "queued"
    /\ Cardinality(AppBusyWorkers) < AppPoolSize(config.section)
    /\ tstate' = [tstate EXCEPT ![i] = "running"]
    /\ started_at' = [started_at EXCEPT ![i] = now]
    /\ UNCHANGED <<phase, result, completion_order, now>>
    /\ AppUnused

\* the function's sleep_for is over and it returns its value
AppTaskReturn(i) ==
    /\ i \in AppTasks
    /\ tstate[i] = "running"
    /\ now >= started_at[i] + AppDuration(config.section, i)
    /\ tstate' = [tstate EXCEPT ![i] = "value"]
    /\ result' = [result EXCEPT ![i] = AppValue(config.section, i)]
    /\ completion_order' = Append(completion_order, i)
    /\ UNCHANGED <<phase, now, started_at>>
    /\ AppUnused

\* sync_wait returns: the awaited sender (or every child of the when_all)
\* has completed; after the last one the end time is taken
AppSyncWaitReturn ==
    /\ phase = "Blocked"
    /\ \A u \in AppTasks : tstate[u] \in {"constructed", "value"}
    /\ AppJoin(config.section) = "when_all" =>
          \A u \in AppTasks : tstate[u] = "value"
    /\ phase' = IF \E u \in AppTasks : tstate[u] = "constructed"
                  THEN "Main" ELSE "Finished"
    /\ UNCHANGED <<tstate, result, completion_order, now, started_at>>
    /\ AppUnused

AppInstant ==
    \/ \E i \in Tasks : AppSyncWait(i)
    \/ AppWhenAll
    \/ \E i \in Tasks : AppStartChild(i)
    \/ AppStartReturn
    \/ \E i \in Tasks : AppWorkerDequeue(i)
    \/ \E i \in Tasks : AppTaskReturn(i)
    \/ AppSyncWaitReturn

\* time passes while some function sleeps and no thread has a step to take
AppTick ==
    /\ \E u \in AppTasks : tstate[u] = "running"
    /\ ~ENABLED AppInstant
    /\ now' = now + 1
    /\ UNCHANGED <<phase, tstate, result, completion_order, started_at>>
    /\ AppUnused

AppNext ==
    \/ \E i \in Tasks : AppSyncWait(i)
    \/ AppWhenAll
    \/ \E i \in Tasks : AppStartChild(i)
    \/ AppStartReturn
    \/ \E i \in Tasks : AppWorkerDequeue(i)
    \/ \E i \in Tasks : AppTaskReturn(i)
    \/ AppSyncWaitReturn
    \/ AppTick

SpecApp == AppInit /\ [][AppNext]_vars

RECURSIVE AppSumMs(_, _)
AppSumMs(s, S) ==
    IF S = {} THEN 0
    ELSE LET i == CHOOSE u \in S : TRUE
         IN AppSleepMs(s, i) + AppSumMs(s, S \ {i})

AppMaxMs(s, S) ==
    CHOOSE m \in {AppSleepMs(s, i) : i \in S} :
        \A i \in S : AppSleepMs(s, i) <= m

\* end_time - start_time of the section, in milliseconds
AppElapsedMs == now * AppTimeUnit

ForkSections == {"fork", "sources", "actions"}

\* C33: in the fork steps (square and analysis processor; the three data
\* sources; the three action tasks) the tasks launched together overlap:
\* every task of the step has started before any of them has finished.
C33_ForkTasksOverlap ==
    config.section \in ForkSections =>
        \A i \in AppTasks : \A j \in AppTasks :
            tstate[i] = "value" => tstate[j] \in {"running", "value"}

\* what the fork steps do instead: one task at a time, each started after
\* the previous one returned, and the step takes the sum of the durations
ForkStepsAreSequential ==
    config.section \in ForkSections =>
        /\ Cardinality({u \in AppTasks :
                           tstate[u] \in {"queued", "running"}}) <= 1
        /\ \A i \in AppTasks : \A j \in AppTasks :
              (i < j /\ tstate[j] # "constructed") => tstate[i] = "value"
        /\ phase = "Finished" =>
              AppElapsedMs = AppSumMs(config.section, AppTasks)

\* the when_all of scheduled senders does overlap its children
ScheduledWhenAllOverlaps ==
    config.section = "when_all" =>
        /\ \A i \in AppTasks : \A j \in AppTasks :
              tstate[i] = "value" => tstate[j] \in {"running", "value"}
        /\ phase = "Finished" =>
              AppElapsedMs = AppMaxMs(config.section, AppTasks)

\* C34: the simple when_all of just(10), just(5), just(7), each followed by
\* then with sleeps of 50, 30 and 40, completes in about the maximum
\* duration (50) and not the sum (120).
C34_SimpleWhenAllTakesMax ==
    (config.section = "simple" /\ phase = "Finished") =>
        /\ AppElapsedMs = AppMaxMs("simple", AppTasks)
        /\ AppElapsedMs < AppSumMs("simple", AppTasks)

\* what the simple when_all does instead: the children run one after the
\* other on the calling thread, in argument order, and it takes the sum
SimpleWhenAllIsSequential ==
    config.section = "simple" =>
        /\ Cardinality({u \in AppTasks : tstate[u] = "running"}) <= 1
        /\ \A u \in AppTasks : tstate[u] # "queued"
        /\ phase = "Finished" =>
              /\ AppElapsedMs = 120
              /\ completion_order = <<1, 2, 3>>
              /\ result[1] = 20 /\ result[2] = 15 /\ result[3] = 28

====
